---- MODULE Spec2Model ----
(***************************************************************************)
(* Context-Maker: the file-aggregation engine of services/file.service     *)
(* (processFileSources, the classification policy, insertFileIntoTree,     *)
(* sortTree and the two serializers).                                      *)
(*                                                                         *)
(* JavaScript strings are TLA+ strings, handled character by character     *)
(* with SubSeq / Len / \o.  Three glyphs that the TLA+ lexer does not      *)
(* accept inside a string literal are written with ASCII stand-ins: the    *)
(* Markdown fence (three backticks) is "~~~", the box-drawing connectors   *)
(* are "|-- " and "+-- ", and the vertical bar of the indent is "|   ".    *)
(***************************************************************************)
EXTENDS FiniteSets, Integers, Sequences, TLC

(***************************************************************************)
(* String.prototype helpers used by the service                            *)
(***************************************************************************)
Char(s, i) == SubSeq(s, i, i)

StartsWith(s, p) == Len(p) <= Len(s) /\ SubSeq(s, 1, Len(p)) = p

EndsWith(s, p) == Len(p) <= Len(s) /\ SubSeq(s, Len(s) - Len(p) + 1, Len(s)) = p

Includes(s, p) == \E i \in 1..(Len(s) - Len(p) + 1) : SubSeq(s, i, i + Len(p) - 1) = p

\* s.split(sep) for a one-character separator: "".split("/") is [""]
RECURSIVE Split(_, _)
Split(s, sep) ==
    IF \E i \in 1..Len(s) : Char(s, i) = sep
    THEN LET i == CHOOSE k \in 1..Len(s) :
                      /\ Char(s, k) = sep
                      /\ \A j \in 1..(k - 1) : Char(s, j) # sep
         IN  <<SubSeq(s, 1, i - 1)>> \o Split(SubSeq(s, i + 1, Len(s)), sep)
    ELSE <<s>>

\* parts.join(sep)
RECURSIVE Join(_, _)
Join(parts, sep) ==
    IF Len(parts) = 0 THEN ""
    ELSE IF Len(parts) = 1 THEN parts[1]
    ELSE parts[1] \o sep \o Join(Tail(parts), sep)

UpperChars == "ABCDEFGHIJKLMNOPQRSTUVWXYZ"

LowerChars == "abcdefghijklmnopqrstuvwxyz"

LowerChar(c) ==
    IF \E i \in 1..Len(UpperChars) : Char(UpperChars, i) = c
    THEN Char(LowerChars, CHOOSE i \in 1..Len(UpperChars) : Char(UpperChars, i) = c)
    ELSE c

RECURSIVE ToLowerCase(_)
ToLowerCase(s) ==
    IF Len(s) = 0 THEN "" ELSE LowerChar(Char(s, 1)) \o ToLowerCase(Tail(s))

IsSpace(c) == c \in {" ", "\n", "\t", "\r"}

RECURSIVE TrimStart(_)
TrimStart(s) ==
    IF Len(s) > 0 /\ IsSpace(Char(s, 1)) THEN TrimStart(Tail(s)) ELSE s

RECURSIVE TrimEnd(_)
TrimEnd(s) ==
    IF Len(s) > 0 /\ IsSpace(Char(s, Len(s)))
    THEN TrimEnd(SubSeq(s, 1, Len(s) - 1)) ELSE s

Trim(s) == TrimEnd(TrimStart(s))

\* filename.split('.').pop()?.toLowerCase()
Extension(filename) ==
    LET parts == Split(filename, ".") IN ToLowerCase(parts[Len(parts)])

(***************************************************************************)
(* a.localeCompare(b): the collation of the default locale.  Characters    *)
(* are first compared by their primary weight (punctuation, then digits,   *)
(* then letters, case ignored); strings equal at that level are ordered    *)
(* by case, lower case first.  The result is -1, 0 or 1.                   *)
(***************************************************************************)
CollationOrder == "_-.,/0123456789abcdefghijklmnopqrstuvwxyz"

Primary(c) ==
    LET l == LowerChar(c) IN
    IF \E i \in 1..Len(CollationOrder) : Char(CollationOrder, i) = l
    THEN CHOOSE i \in 1..Len(CollationOrder) : Char(CollationOrder, i) = l
    ELSE 0

Tertiary(c) == IF LowerChar(c) = c THEN 0 ELSE 1

RECURSIVE PrimaryKey(_)
PrimaryKey(s) ==
    IF Len(s) = 0 THEN <<>> ELSE <<Primary(Char(s, 1))>> \o PrimaryKey(Tail(s))

RECURSIVE TertiaryKey(_)
TertiaryKey(s) ==
    IF Len(s) = 0 THEN <<>> ELSE <<Tertiary(Char(s, 1))>> \o TertiaryKey(Tail(s))

RECURSIVE CompareKeys(_, _)
CompareKeys(a, b) ==
    IF Len(a) = 0 /\ Len(b) = 0 THEN 0
    ELSE IF Len(a) = 0 THEN -1
    ELSE IF Len(b) = 0 THEN 1
    ELSE IF Head(a) < Head(b) THEN -1
    ELSE IF Head(a) > Head(b) THEN 1
    ELSE CompareKeys(Tail(a), Tail(b))

LocaleCompare(a, b) ==
    IF CompareKeys(PrimaryKey(a), PrimaryKey(b)) # 0
    THEN CompareKeys(PrimaryKey(a), PrimaryKey(b))
    ELSE CompareKeys(TertiaryKey(a), TertiaryKey(b))

(***************************************************************************)
(* Classification policy                                                   *)
(***************************************************************************)
BINARY_EXTENSIONS ==
    {"png", "jpg", "jpeg", "gif", "bmp", "ico", "svg", "mp4", "webm", "mp3",
     "wav", "ogg", "zip", "tar", "gz", "7z", "rar", "pdf", "exe", "dll", "so",
     "dylib", "class", "jar", "pyc", "eot", "ttf", "woff", "woff2"}

IGNORED_DIRS ==
    {".git", "node_modules", "__pycache__", "dist", "build", ".next", "out",
     "coverage", "web-build", ".vscode", ".idea", ".expo", ".kotlin", ".venv",
     "venv"}

IGNORED_FILENAMES == {".DS_Store", "expo-env.d.ts"}

IGNORED_EXTENSIONS ==
    {"jks", "p8", "p12", "key", "mobileprovision", "pem", "tsbuildinfo"}

isIgnoredFile(filename) ==
    \/ filename \in IGNORED_FILENAMES
    \/ Extension(filename) # "" /\ Extension(filename) \in IGNORED_EXTENSIONS
    \/ StartsWith(filename, "npm-debug.")
    \/ StartsWith(filename, "yarn-debug.")
    \/ StartsWith(filename, "yarn-error.")
    \/ StartsWith(filename, ".metro-health-check")
    \/ StartsWith(filename, ".env") /\ EndsWith(filename, ".local")
    \/ Includes(filename, ".orig.")

\* mutation: the media type is not looked at
isBinary_ExtensionOnly(file) ==
    Extension(file.name) # "" /\ Extension(file.name) \in BINARY_EXTENSIONS

isBinary(file) ==
    \/ StartsWith(file.type, "image/")
    \/ StartsWith(file.type, "video/")
    \/ StartsWith(file.type, "audio/")
    \/ Extension(file.name) # "" /\ Extension(file.name) \in BINARY_EXTENSIONS

\* readFileContent, binary branch: the placeholder, file.text() is not called
BinaryPlaceholder(file) ==
    "[Binary content of type "
        \o (IF file.type # "" THEN file.type ELSE "unknown")
        \o " not included]"

\* mutation: no try/catch, the rejection of file.text() goes up
ReadErrorPlaceholder_Rethrow(e) == [settled |-> "rejected", value |-> e]

\* readFileContent, catch branch: the rejection of file.text() is swallowed
ReadErrorPlaceholder(e) ==
    [settled |-> "fulfilled", value |-> "[Error reading file: " \o e \o "]"]

(***************************************************************************)
(* Tree nodes (types.ts)                                                   *)
(***************************************************************************)
FileNode(name, path, content) ==
    [kind |-> "file", name |-> name, path |-> path, content |-> content]

DirectoryNode(name, path, children) ==
    [kind |-> "directory", name |-> name, path |-> path, children |-> children]

(***************************************************************************)
(* insertFileIntoTree.  The function is one recursion with a single        *)
(* suspension point, the read of the file at the leaf.  InsertDescend is   *)
(* the part that runs before the read: it walks pathParts, creates the     *)
(* missing directory nodes and stops at the leaf; `cursor` is the list of  *)
(* child indexes leading to the node list the leaf call holds a reference  *)
(* to, and `leaf` tells whether the call reaches the read.  InsertPush is  *)
(* the part that runs after the read: tree.push of the file node into      *)
(* that node list.                                                         *)
(***************************************************************************)
\* mutation: the lookup never finds the directory
FindDirectory_Never(nodes, currentName) == 0

\* tree.find(n => n.kind === 'directory' && n.name === currentName): index or 0
FindDirectory(nodes, currentName) ==
    IF \E i \in 1..Len(nodes) : nodes[i].kind = "directory" /\ nodes[i].name = currentName
    THEN CHOOSE i \in 1..Len(nodes) :
             /\ nodes[i].kind = "directory" /\ nodes[i].name = currentName
             /\ \A j \in 1..(i - 1) :
                    ~(nodes[j].kind = "directory" /\ nodes[j].name = currentName)
    ELSE 0

RECURSIVE InsertDescend(_, _, _)
InsertDescend(nodes, pathParts, fullPathPrefix) ==
    IF Len(pathParts) = 0
    THEN [nodes |-> nodes, leaf |-> FALSE, cursor |-> <<>>]
    ELSE LET currentName == Head(pathParts)
             rest == Tail(pathParts)
             currentPath == fullPathPrefix \o "/" \o currentName
         IN  IF Len(rest) > 0 /\ currentName \in IGNORED_DIRS
             THEN [nodes |-> nodes, leaf |-> FALSE, cursor |-> <<>>]
             ELSE IF Len(rest) = 0
             THEN [nodes |-> nodes, leaf |-> ~isIgnoredFile(currentName),
                   cursor |-> <<>>]
             ELSE LET found == FindDirectory(nodes, currentName)
                      held == IF found = 0
                              THEN Append(nodes, DirectoryNode(currentName, currentPath, <<>>))
                              ELSE nodes
                      k == IF found = 0 THEN Len(held) ELSE found
                      sub == InsertDescend(held[k].children, rest, currentPath)
                  IN  [nodes |-> [held EXCEPT ![k].children = sub.nodes],
                       leaf |-> sub.leaf,
                       cursor |-> <<k>> \o sub.cursor]

\* the path of the leaf: fullPathPrefix/part/.../part
LeafPath(pathParts, fullPathPrefix) == fullPathPrefix \o "/" \o Join(pathParts, "/")

\* mutation: the file node is pushed into the source's own list, whatever
\* list the leaf call was given
InsertPush_IntoRoot(nodes, cursor, node) == Append(nodes, node)

RECURSIVE InsertPush(_, _, _)
InsertPush(nodes, cursor, node) ==
    IF Len(cursor) = 0 THEN Append(nodes, node)
    ELSE [nodes EXCEPT ![Head(cursor)].children = InsertPush(@, Tail(cursor), node)]

(***************************************************************************)
(* sortTree: Array.prototype.sort is stable; directories first, then       *)
(* localeCompare on the names; children sorted recursively.                *)
(***************************************************************************)
\* mutation: the kinds are not compared
CompareNodes_NamesOnly(a, b) == LocaleCompare(a.name, b.name)

CompareNodes(a, b) ==
    IF a.kind = b.kind THEN LocaleCompare(a.name, b.name)
    ELSE IF a.kind = "directory" THEN -1 ELSE 1

\* n goes after every element that does not compare greater than it
InsertSorted(sorted, n) ==
    LET k == Cardinality({i \in 1..Len(sorted) : CompareNodes(sorted[i], n) <= 0})
    IN  SubSeq(sorted, 1, k) \o <<n>> \o SubSeq(sorted, k + 1, Len(sorted))

RECURSIVE StableSort(_)
StableSort(nodes) ==
    IF Len(nodes) = 0 THEN <<>>
    ELSE InsertSorted(StableSort(SubSeq(nodes, 1, Len(nodes) - 1)), nodes[Len(nodes)])

RECURSIVE sortTree(_)
RECURSIVE SortChildren(_)
SortChildren(nodes) ==
    IF Len(nodes) = 0 THEN <<>>
    ELSE <<IF Head(nodes).kind = "directory"
           THEN [Head(nodes) EXCEPT !.children = sortTree(@)]
           ELSE Head(nodes)>> \o SortChildren(Tail(nodes))

sortTree(nodes) == SortChildren(StableSort(nodes))

(***************************************************************************)
(* Serializers                                                             *)
(***************************************************************************)
RECURSIVE generateStructureStringRecursive(_, _)
RECURSIVE StructureFrom(_, _, _)
StructureFrom(nodes, prefix, index) ==
    IF index > Len(nodes) THEN ""
    ELSE LET node == nodes[index]
             isLast == index = Len(nodes)
             connector == IF isLast THEN "+-- " ELSE "|-- "
             newPrefix == prefix \o (IF isLast THEN "    " ELSE "|   ")
         IN  prefix \o connector \o node.name \o "\n"
                 \o (IF node.kind = "directory"
                     THEN generateStructureStringRecursive(node.children, newPrefix)
                     ELSE "")
                 \o StructureFrom(nodes, prefix, index + 1)

generateStructureStringRecursive(nodes, prefix) == StructureFrom(nodes, prefix, 1)

RECURSIVE generateStructureString(_)
generateStructureString(tree) ==
    IF Len(tree) = 0 THEN ""
    ELSE Head(tree).name \o "\n"
             \o (IF Head(tree).kind = "directory"
                 THEN generateStructureStringRecursive(Head(tree).children, "")
                 ELSE "")
             \o generateStructureString(Tail(tree))

FileHeader(path) == "\n\n# -------- FILE: " \o path \o " --------\n\n"

FileBlock(node) == FileHeader(node.path) \o "~~~\n" \o node.content \o "\n~~~"

RECURSIVE generateContentStringRecursive(_)
generateContentStringRecursive(nodes) ==
    IF Len(nodes) = 0 THEN ""
    ELSE (IF Head(nodes).kind = "file"
          THEN FileBlock(Head(nodes))
          ELSE generateContentStringRecursive(Head(nodes).children))
             \o generateContentStringRecursive(Tail(nodes))

\* mutation: the result is not trimmed
generateContentString_Untrimmed(tree) == generateContentStringRecursive(tree)

generateContentString(tree) == Trim(generateContentStringRecursive(tree))

(***************************************************************************)
(* Inputs.  A File handle has a name, a webkitRelativePath, a media type,  *)
(* the text its stream holds and, when the stream cannot be read, the      *)
(* error file.text() rejects with ("" when it can).  The folder picker     *)
(* (handleFolderSelect) gives handles whose webkitRelativePath is rooted   *)
(* at the folder name; a dropped folder (handleDrop) gives handles from    *)
(* entry.file(), whose webkitRelativePath is the empty string; the file    *)
(* picker gives loose files, one file source each.                         *)
(***************************************************************************)
File(name, rel, type, text, err) ==
    [name |-> name, webkitRelativePath |-> rel, type |-> type,
     text |-> text, err |-> err]

Picked(rel, type, text, err) ==
    LET parts == Split(rel, "/") IN File(parts[Len(parts)], rel, type, text, err)

MaxSources == 2

MaxFiles == 2

MaxPasses == 2

\* the file systems the user selects from
Worlds ==
    { [folders |->
          { [name |-> "proj",
             files |-> { Picked("proj/src/a.txt", "text/plain", "hello", ""),
                         Picked("proj/src/b.txt", "text/plain", "x", ""),
                         Picked("proj/b.txt", "text/plain", "y", ""),
                         Picked("proj/A/c.txt", "text/plain", "z", "") }] },
       loose |-> { File("a.txt", "", "text/plain", "one", ""),
                   File("a.txt", "", "text/plain", "two", "") }],
      [folders |->
          { [name |-> "proj",
             files |-> { Picked("proj/src/node_modules/x.js", "text/javascript", "x", ""),
                         Picked("proj/build", "", "make", ""),
                         Picked("proj/.env.local", "", "KEY=1", ""),
                         Picked("proj/src/m.ts", "", "m", "") }],
            [name |-> "build",
             files |-> { Picked("build/a.txt", "text/plain", "hello", "") }] },
       loose |-> { File("build", "", "", "make", ""),
                   File("key.pem", "", "", "secret", "") }],
      [folders |->
          { [name |-> "proj",
             files |-> { Picked("proj/i.webp", "image/webp", "<riff>", ""),
                         Picked("proj/D.PNG", "", "<ihdr>", ""),
                         Picked("proj/u.txt", "text/plain", "u", "NotReadableError"),
                         Picked("proj/src/n.txt", "text/plain", " n\n", "") }] },
       loose |-> { File("logo.png", "", "image/png", "<plte>", ""),
                   File("v.txt", "", "text/plain", "v", "NotFoundError") }],
      [folders |->
          { [name |-> "proj",
             files |-> { File("a.txt", "", "text/plain", "one", ""),
                         File("b.txt", "", "text/plain", "two", ""),
                         File("x.pem", "", "", "secret", "") }],
            [name |-> "lib",
             files |-> { Picked("lib/proj/a.txt", "text/plain", "one", ""),
                         Picked("lib/lib/a.txt", "text/plain", "two", "") }] },
       loose |-> {}] }

\* the orders in which at most MaxFiles handles of a folder can be enumerated
Enumerations(files) ==
    UNION { { e \in [1..n -> files] : \A i, j \in 1..n : e[i] = e[j] => i = j }
            : n \in 0..MaxFiles }

SourcePool(w) ==
    UNION { { [name |-> f.name, kind |-> "directory", files |-> e]
                : e \in Enumerations(f.files) }
            : f \in w.folders }
    \cup { [name |-> h.name, kind |-> "file", files |-> <<h>>] : h \in w.loose }

RECURSIVE CountFiles(_)
CountFiles(l) == IF Len(l) = 0 THEN 0 ELSE Len(Head(l).files) + CountFiles(Tail(l))

\* the selections of at most MaxSources sources holding at most MaxFiles
\* handles in all; crypto.randomUUID() gives every source its own id, here
\* its rank in the selection
SourceLists(w) ==
    UNION { { [i \in 1..n |-> [id |-> i, name |-> l[i].name, kind |-> l[i].kind,
                               files |-> l[i].files]]
              : l \in { m \in [1..n -> SourcePool(w)] : CountFiles(m) <= MaxFiles } }
            : n \in 0..MaxSources }

Reorderings(seq) ==
    { [i \in 1..Len(seq) |-> seq[p[i]]]
        : p \in { q \in [1..Len(seq) -> 1..Len(seq)] :
                      \A i, j \in 1..Len(seq) : q[i] = q[j] => i = j } }

\* the same selection with the handles of the directory sources enumerated
\* in any order
Reenumerations(srcs) ==
    { l \in [1..Len(srcs) -> UNION { { [srcs[i] EXCEPT !.files = e] : e \in Reorderings(srcs[i].files) }
                                     : i \in 1..Len(srcs) }] :
          \A i \in 1..Len(srcs) :
              /\ l[i].id = srcs[i].id
              /\ l[i].files \in Reorderings(srcs[i].files) }

(***************************************************************************)
(* State of one aggregation pass and of the passes before it               *)
(***************************************************************************)
VARIABLES
    sources,        \* the FileSource[] handed to processFileSources
    pc,             \* "start", "loop", "reading", "done" or "rejected"
    tree,           \* const tree of processFileSources
    dirNode,        \* const dirNode of the directory source being walked
    si,             \* rank of the source the outer loop is at
    fi,             \* rank of the file the inner loop is at
    cursor,         \* node list the suspended insertFileIntoTree pushes into
    reads,          \* the handles file.text() was called on, as <<si, fi>>
    structureText,  \* generateStructureString(tree) of the finished pass
    contentText,    \* generateContentString(tree) of the finished pass
    pass,           \* number of passes started
    prev,           \* sources and output of the pass before this one
    combinedOutput, \* useState('') of PromptContextGenerator
    isLoading,      \* useState(false)
    error,          \* useState(null); null is written ""
    inflight,       \* the calls of process() that are suspended at a read
    drops,          \* the calls of handleDrop that are suspended
    issued,         \* number of ids crypto.randomUUID() has given out
    clipboard       \* the text navigator.clipboard holds

\* the state of the component
ui == <<combinedOutput, isLoading, error, inflight, drops, issued, clipboard>>

vars == <<sources, pc, tree, dirNode, si, fi, cursor, reads, structureText,
          contentText, pass, prev, ui>>

\* the component as mounted: nothing selected, nothing shown
Mounted ==
    /\ combinedOutput = ""
    /\ isLoading = FALSE
    /\ error = ""
    /\ inflight = {}
    /\ drops = <<>>
    /\ issued = 0
    /\ clipboard = ""

NoDir == [kind |-> "none"]

NoPass == [pass |-> 0]

Init ==
    /\ \E w \in Worlds : sources \in SourceLists(w)
    /\ pc = "start"
    /\ tree = <<>>
    /\ dirNode = NoDir
    /\ si = 1
    /\ fi = 1
    /\ cursor = <<>>
    /\ reads = <<>>
    /\ structureText = ""
    /\ contentText = ""
    /\ pass = 1
    /\ prev = NoPass
    /\ Mounted

source == sources[si]

file == sources[si].files[fi]

\* mutation: the tree outlives the call
FreshTree_Stale(old) == old

\* const tree: FileSystemTree = []
FreshTree(old) == <<>>

\* processFileSources is called: its locals are created
ProcessFileSources ==
    /\ pc = "start"
    /\ pc' = "loop"
    /\ tree' = FreshTree(tree)
    /\ dirNode' = NoDir
    /\ si' = 1
    /\ fi' = 1
    /\ cursor' = <<>>
    /\ reads' = <<>>
    /\ UNCHANGED <<sources, structureText, contentText, pass, prev>>
    /\ UNCHANGED ui

\* a file of a file source: skipped, given its placeholder, or read
VisitSingleFile ==
    /\ pc = "loop"
    /\ si <= Len(sources)
    /\ source.kind = "file"
    /\ fi <= Len(source.files)
    /\ IF isIgnoredFile(file.name)
       THEN /\ fi' = fi + 1
            /\ UNCHANGED <<pc, tree, reads>>
       ELSE IF isBinary(file)
       THEN /\ tree' = Append(tree, FileNode(file.name, file.name, BinaryPlaceholder(file)))
            /\ fi' = fi + 1
            /\ UNCHANGED <<pc, reads>>
       ELSE /\ pc' = "reading"
            /\ reads' = Append(reads, <<si, fi>>)
            /\ UNCHANGED <<tree, fi>>
    /\ UNCHANGED <<sources, dirNode, si, cursor, structureText, contentText, pass, prev>>
    /\ UNCHANGED ui

\* the directory node of a directory source is created
EnterDirectorySource ==
    /\ pc = "loop"
    /\ si <= Len(sources)
    /\ source.kind = "directory"
    /\ dirNode = NoDir
    /\ dirNode' = DirectoryNode(source.name, source.name, <<>>)
    /\ UNCHANGED <<sources, pc, tree, si, fi, cursor, reads, structureText,
                   contentText, pass, prev>>
    /\ UNCHANGED ui

\* mutation: the early filter is off
hasIgnoredDir_Off(parts) == FALSE

\* parts.some(part => IGNORED_DIRS.has(part))
hasIgnoredDir(parts) == \E i \in 1..Len(parts) : parts[i] \in IGNORED_DIRS

\* mutation: the root segment is kept
relativeParts_KeepRoot(parts, rootName) == parts

\* parts.length > 1 && parts[0] === source.name ? parts.slice(1) : parts
relativeParts(parts, rootName) ==
    IF Len(parts) > 1 /\ parts[1] = rootName THEN Tail(parts) ELSE parts

\* a file of a directory source: filtered, then insertFileIntoTree up to
\* its read
VisitDirectoryFile ==
    /\ pc = "loop"
    /\ si <= Len(sources)
    /\ source.kind = "directory"
    /\ dirNode # NoDir
    /\ fi <= Len(source.files)
    /\ LET parts == Split(file.webkitRelativePath, "/") IN
       IF hasIgnoredDir(parts) \/ isIgnoredFile(file.name)
       THEN /\ fi' = fi + 1
            /\ UNCHANGED <<pc, dirNode, cursor, reads>>
       ELSE LET rel == relativeParts(parts, source.name)
                d == InsertDescend(dirNode.children, rel, source.name)
            IN  IF ~d.leaf
                THEN /\ dirNode' = [dirNode EXCEPT !.children = d.nodes]
                     /\ fi' = fi + 1
                     /\ UNCHANGED <<pc, cursor, reads>>
                ELSE IF isBinary(file)
                THEN /\ dirNode' = [dirNode EXCEPT !.children =
                            InsertPush(d.nodes, d.cursor,
                                FileNode(rel[Len(rel)], LeafPath(rel, source.name),
                                         BinaryPlaceholder(file)))]
                     /\ fi' = fi + 1
                     /\ UNCHANGED <<pc, cursor, reads>>
                ELSE /\ dirNode' = [dirNode EXCEPT !.children = d.nodes]
                     /\ cursor' = d.cursor
                     /\ pc' = "reading"
                     /\ reads' = Append(reads, <<si, fi>>)
                     /\ UNCHANGED fi
    /\ UNCHANGED <<sources, tree, si, structureText, contentText, pass, prev>>
    /\ UNCHANGED ui

\* tree.push({ kind: 'file', ... content }) once the content is there
PushContent(content) ==
    IF source.kind = "file"
    THEN /\ tree' = Append(tree, FileNode(file.name, file.name, content))
         /\ UNCHANGED dirNode
    ELSE LET rel == relativeParts(Split(file.webkitRelativePath, "/"), source.name) IN
         /\ dirNode' = [dirNode EXCEPT !.children =
                InsertPush(@, cursor,
                    FileNode(rel[Len(rel)], LeafPath(rel, source.name), content))]
         /\ UNCHANGED tree

\* file.text() fulfils
ReadFulfilled ==
    /\ pc = "reading"
    /\ file.err = ""
    /\ PushContent(file.text)
    /\ pc' = "loop"
    /\ fi' = fi + 1
    /\ cursor' = <<>>
    /\ UNCHANGED <<sources, si, reads, structureText, contentText, pass, prev>>
    /\ UNCHANGED ui

\* file.text() rejects
ReadRejected ==
    /\ pc = "reading"
    /\ file.err # ""
    /\ LET r == ReadErrorPlaceholder(file.err) IN
       IF r.settled = "fulfilled"
       THEN /\ PushContent(r.value)
            /\ pc' = "loop"
            /\ fi' = fi + 1
       ELSE /\ pc' = "rejected"
            /\ UNCHANGED <<tree, dirNode, fi>>
    /\ cursor' = <<>>
    /\ UNCHANGED <<sources, si, reads, structureText, contentText, pass, prev>>
    /\ UNCHANGED ui

\* mutation: a directory node without children is not pushed
pushDirNode_UnlessEmpty(t, node) ==
    IF Len(node.children) = 0 THEN t ELSE Append(t, node)

\* tree.push(dirNode): no lookup, every directory source adds its node
pushDirNode(t, node) == Append(t, node)

\* the inner loop is over: sortTree(dirNode.children); tree.push(dirNode)
LeaveSource ==
    /\ pc = "loop"
    /\ si <= Len(sources)
    /\ fi > Len(source.files)
    /\ source.kind = "directory" => dirNode # NoDir
    /\ tree' = IF source.kind = "directory"
               THEN pushDirNode(tree, [dirNode EXCEPT !.children = sortTree(@)])
               ELSE tree
    /\ dirNode' = NoDir
    /\ si' = si + 1
    /\ fi' = 1
    /\ UNCHANGED <<sources, pc, cursor, reads, structureText, contentText, pass, prev>>
    /\ UNCHANGED ui

\* the outer loop is over: sortTree(tree); return tree; the caller renders it
Finish ==
    /\ pc = "loop"
    /\ si > Len(sources)
    /\ tree' = sortTree(tree)
    /\ structureText' = generateStructureString(tree')
    /\ contentText' = generateContentString(tree')
    /\ pc' = "done"
    /\ UNCHANGED <<sources, dirNode, si, fi, cursor, reads, pass, prev>>
    /\ UNCHANGED ui

\* the selection is processed again, its folders possibly re-enumerated
Retrigger ==
    /\ pc = "done"
    /\ pass < MaxPasses
    /\ \E again \in Reenumerations(sources) : sources' = again
    /\ prev' = [pass |-> pass, sources |-> sources,
                structureText |-> structureText, contentText |-> contentText]
    /\ pass' = pass + 1
    /\ pc' = "start"
    /\ UNCHANGED <<tree, dirNode, si, fi, cursor, reads, structureText, contentText>>
    /\ UNCHANGED ui

Next ==
    \/ ProcessFileSources
    \/ VisitSingleFile
    \/ EnterDirectorySource
    \/ VisitDirectoryFile
    \/ ReadFulfilled
    \/ ReadRejected
    \/ LeaveSource
    \/ Finish
    \/ Retrigger

Spec == Init /\ [][Next]_vars

(***************************************************************************)
(* The pass as a function of its argument.  The component can have        *)
(* several calls of process() suspended at once, each on the source list   *)
(* it was started with; the tree such a call resolves to is the one the    *)
(* stepped pass above builds: the same filters, InsertDescend, InsertPush  *)
(* and sortTree, folded over the sources and their files.                  *)
(***************************************************************************)
\* readFileContent: the string the await resolves to
readFileContent(f) ==
    IF isBinary(f) THEN BinaryPlaceholder(f)
    ELSE IF f.err = "" THEN f.text
    ELSE ReadErrorPlaceholder(f.err).value

\* the inner loop of a file source
RECURSIVE InsertSingleFiles(_, _)
InsertSingleFiles(t, files) ==
    IF Len(files) = 0 THEN t
    ELSE LET f == Head(files) IN
         InsertSingleFiles(
             IF isIgnoredFile(f.name) THEN t
             ELSE Append(t, FileNode(f.name, f.name, readFileContent(f))),
             Tail(files))

\* the inner loop of a directory source
RECURSIVE InsertFiles(_, _, _)
InsertFiles(children, files, rootName) ==
    IF Len(files) = 0 THEN children
    ELSE LET f == Head(files)
             parts == Split(f.webkitRelativePath, "/")
             rel == relativeParts(parts, rootName)
             d == InsertDescend(children, rel, rootName)
         IN  InsertFiles(
                 IF hasIgnoredDir(parts) \/ isIgnoredFile(f.name) THEN children
                 ELSE IF ~d.leaf THEN d.nodes
                 ELSE InsertPush(d.nodes, d.cursor,
                          FileNode(rel[Len(rel)], LeafPath(rel, rootName),
                                   readFileContent(f))),
                 Tail(files), rootName)

\* the outer loop
RECURSIVE InsertSources(_, _)
InsertSources(t, srcs) ==
    IF Len(srcs) = 0 THEN t
    ELSE LET s == Head(srcs) IN
         InsertSources(
             IF s.kind = "file" THEN InsertSingleFiles(t, s.files)
             ELSE pushDirNode(t, DirectoryNode(s.name, s.name,
                                     sortTree(InsertFiles(<<>>, s.files, s.name)))),
             Tail(srcs))

\* the tree `await processFileSources(srcs)` resolves to
AwaitedTree(srcs) == sortTree(InsertSources(FreshTree(<<>>), srcs))

\* whether the pass calls file.text() on f, a file of source s
IsRead(s, f) ==
    /\ ~isIgnoredFile(f.name)
    /\ ~isBinary(f)
    /\ s.kind = "directory" =>
           LET parts == Split(f.webkitRelativePath, "/") IN
           /\ ~hasIgnoredDir(parts)
           /\ InsertDescend(<<>>, relativeParts(parts, s.name), s.name).leaf

\* the number of reads a pass over srcs is suspended at, one after the other
RECURSIVE ReadsOf(_)
ReadsOf(srcs) ==
    IF Len(srcs) = 0 THEN 0
    ELSE Cardinality({ i \in 1..Len(Head(srcs).files) :
                           IsRead(Head(srcs), Head(srcs).files[i]) })
             + ReadsOf(Tail(srcs))

(***************************************************************************)
(* PromptContextGenerator.  Every handler that calls setSources is one     *)
(* action together with the effect React runs for the new list before it   *)
(* handles another event.  A call of process() runs to its first           *)
(* file.text() without giving up control, and from the settlement of its   *)
(* last read to the end of its finally block likewise (awaits of settled   *)
(* promises are microtasks); so a pass that reads nothing completes within *)
(* the effect, and a pass that reads is suspended once per read.  The      *)
(* effect has no cleanup: a suspended pass is not told that the list has   *)
(* changed.                                                                *)
(***************************************************************************)
FailedToProcess == "Failed to process files."

\* const finalOutput = `...${structure.trim()}...${content}`
FinalOutput(structure, content) ==
    "This prompt contains the structure and content of a project.\n\n"
        \o "# DIRECTORY STRUCTURE\n\n~~~\n" \o Trim(structure)
        \o "\n~~~\n\n# FILE CONTENTS\n" \o content

\* the try block of process(): both strings come from the tree of that call
Published(srcs) ==
    LET t == AwaitedTree(srcs) IN
    FinalOutput(generateStructureString(t), generateContentString(t))

\* mutation: the effect does not look at the length of the list
StartsPass_Always(list) == TRUE

\* if (sources.length === 0) { setCombinedOutput(''); return; }
StartsPass(list) == Len(list) # 0

\* the effect for the list `list`; shown, loading and err are the values the
\* handler has set before the effect runs
UseEffect(list, shown, loading, err) ==
    IF ~StartsPass(list)
    THEN /\ combinedOutput' = ""
         /\ isLoading' = loading
         /\ error' = err
         /\ UNCHANGED <<inflight, pass>>
    ELSE /\ pass < MaxPasses
         /\ pass' = pass + 1
         /\ error' = ""
         /\ IF ReadsOf(list) = 0
            THEN /\ combinedOutput' = Published(list)
                 /\ isLoading' = FALSE
                 /\ UNCHANGED inflight
            ELSE /\ combinedOutput' = shown
                 /\ isLoading' = TRUE
                 /\ inflight' = inflight \cup
                        {[id |-> pass + 1, sources |-> list, left |-> ReadsOf(list)]}

\* the sources a handler builds from what the user picked, with fresh ids
WithIds(picked) ==
    [i \in 1..Len(picked) |->
        [id |-> issued + i, name |-> picked[i].name, kind |-> picked[i].kind,
         files |-> picked[i].files]]

\* the sources of the suspended drops
RECURSIVE Pending(_)
Pending(ds) == IF Len(ds) = 0 THEN 0 ELSE Len(Head(ds)) + Pending(Tail(ds))

Room(n) == Len(sources) + Pending(drops) + n <= MaxSources

\* what the folder picker can return
FolderChoices ==
    { [name |-> "proj", kind |-> "directory",
       files |-> <<Picked("proj/src/a.txt", "text/plain", "hello", "")>>],
      [name |-> "proj", kind |-> "directory",
       files |-> <<Picked("proj/logo.png", "image/png", "<plte>", "")>>] }

\* what the file picker can return
FileChoices ==
    { <<Picked("b.txt", "text/plain", "x", "")>>,
      <<Picked("logo.png", "image/png", "<plte>", "")>>,
      <<Picked("b.txt", "text/plain", "x", ""),
        Picked("u.txt", "text/plain", "", "NotReadableError")>> }

MaxDrops == 1

\* what can be dropped: nothing with an entry, a file, a folder; the handles
\* of a dropped folder come from entry.file() and have no relative path
DropChoices ==
    { <<>>,
      <<[name |-> "b.txt", kind |-> "file",
         files |-> <<File("b.txt", "", "text/plain", "x", "")>>]>>,
      <<[name |-> "lib", kind |-> "directory",
         files |-> <<File("a.txt", "", "text/plain", "one", "")>>]>> }

HandleFolderSelect ==
    /\ Room(1)
    /\ \E picked \in FolderChoices :
           /\ sources' = sources \o WithIds(<<picked>>)
           /\ issued' = issued + 1
           /\ UseEffect(sources', combinedOutput, isLoading, error)
    /\ UNCHANGED <<drops, clipboard>>
    /\ UNCHANGED <<pc, tree, dirNode, si, fi, cursor, reads, structureText,
                   contentText, prev>>

HandleFileSelect ==
    /\ \E files \in FileChoices :
           /\ Room(Len(files))
           /\ sources' = sources \o
                  WithIds([i \in 1..Len(files) |->
                              [name |-> files[i].name, kind |-> "file",
                               files |-> <<files[i]>>]])
           /\ issued' = issued + Len(files)
           /\ UseEffect(sources', combinedOutput, isLoading, error)
    /\ UNCHANGED <<drops, clipboard>>
    /\ UNCHANGED <<pc, tree, dirNode, si, fi, cursor, reads, structureText,
                   contentText, prev>>

\* handleDrop up to its first await, which it reaches for a dropped folder;
\* without one it runs to its end
HandleDrop ==
    /\ \E dropped \in DropChoices :
           /\ Room(Len(dropped))
           /\ issued' = issued + Len(dropped)
           /\ IF \E i \in 1..Len(dropped) : dropped[i].kind = "directory"
              THEN /\ Len(drops) < MaxDrops
                   /\ pass < MaxPasses
                   /\ isLoading' = TRUE
                   /\ drops' = Append(drops, WithIds(dropped))
                   /\ UNCHANGED <<sources, combinedOutput, error, inflight, pass>>
              ELSE /\ sources' = sources \o WithIds(dropped)
                   /\ UseEffect(sources', combinedOutput, FALSE, error)
                   /\ UNCHANGED drops
    /\ UNCHANGED clipboard
    /\ UNCHANGED <<pc, tree, dirNode, si, fi, cursor, reads, structureText,
                   contentText, prev>>

\* handleDrop after its awaits: setSources(prev => ...); setIsLoading(false)
DropResumes ==
    /\ \E k \in 1..Len(drops) :
           /\ sources' = sources \o drops[k]
           /\ drops' = SubSeq(drops, 1, k - 1) \o SubSeq(drops, k + 1, Len(drops))
           /\ UseEffect(sources', combinedOutput, FALSE, error)
    /\ UNCHANGED <<issued, clipboard>>
    /\ UNCHANGED <<pc, tree, dirNode, si, fi, cursor, reads, structureText,
                   contentText, prev>>

\* prev.filter(s => s.id !== id)
WithoutId(list, id) ==
    LET keep == { i \in 1..Len(list) : list[i].id # id }
        rank(i) == Cardinality({ j \in keep : j <= i })
    IN  [n \in 1..Cardinality(keep) |-> list[CHOOSE i \in keep : rank(i) = n]]

HandleRemoveItem ==
    /\ \E k \in 1..Len(sources) :
           /\ sources' = WithoutId(sources, sources[k].id)
           /\ UseEffect(sources', combinedOutput, isLoading, error)
    /\ UNCHANGED <<drops, issued, clipboard>>
    /\ UNCHANGED <<pc, tree, dirNode, si, fi, cursor, reads, structureText,
                   contentText, prev>>

\* the Clear button is rendered when sources.length > 0
HandleClear ==
    /\ Len(sources) > 0
    /\ sources' = <<>>
    /\ UseEffect(sources', "", isLoading, "")
    /\ UNCHANGED <<drops, issued, clipboard>>
    /\ UNCHANGED <<pc, tree, dirNode, si, fi, cursor, reads, structureText,
                   contentText, prev>>

\* {combinedOutput && <Button onClick={handleCopy} ...>}
CopyShown == combinedOutput # ""

\* {error && ...}
ErrorShown == error # ""

\* {!isLoading && !error && ...}: the pane that shows combinedOutput
OutputShown == ~isLoading /\ error = ""

HandleCopy ==
    /\ CopyShown
    /\ clipboard' = combinedOutput
    /\ UNCHANGED <<sources, pass, combinedOutput, isLoading, error, inflight,
                   drops, issued>>
    /\ UNCHANGED <<pc, tree, dirNode, si, fi, cursor, reads, structureText,
                   contentText, prev>>

\* a read of a suspended pass settles and the pass goes on to its next read
ReadSettles ==
    /\ \E p \in inflight :
           /\ p.left > 1
           /\ inflight' = (inflight \ {p}) \cup {[p EXCEPT !.left = @ - 1]}
    /\ UNCHANGED <<sources, pass, combinedOutput, isLoading, error, drops,
                   issued, clipboard>>
    /\ UNCHANGED <<pc, tree, dirNode, si, fi, cursor, reads, structureText,
                   contentText, prev>>

\* the last read settles: setCombinedOutput(finalOutput), then finally
PassPublishes ==
    /\ \E p \in inflight :
           /\ p.left = 1
           /\ combinedOutput' = Published(p.sources)
           /\ inflight' = inflight \ {p}
    /\ isLoading' = FALSE
    /\ UNCHANGED <<sources, pass, error, drops, issued, clipboard>>
    /\ UNCHANGED <<pc, tree, dirNode, si, fi, cursor, reads, structureText,
                   contentText, prev>>

\* something in the try block throws when the pass resumes: catch, finally
PassFails ==
    /\ \E p \in inflight : inflight' = inflight \ {p}
    /\ error' = FailedToProcess
    /\ isLoading' = FALSE
    /\ UNCHANGED <<sources, pass, combinedOutput, drops, issued, clipboard>>
    /\ UNCHANGED <<pc, tree, dirNode, si, fi, cursor, reads, structureText,
                   contentText, prev>>

\* the component after it is mounted: the effect has run on the empty list
InitUI ==
    /\ sources = <<>>
    /\ pc = "start"
    /\ tree = <<>>
    /\ dirNode = NoDir
    /\ si = 1
    /\ fi = 1
    /\ cursor = <<>>
    /\ reads = <<>>
    /\ structureText = ""
    /\ contentText = ""
    /\ pass = 0
    /\ prev = NoPass
    /\ Mounted

NextUI ==
    \/ HandleFolderSelect
    \/ HandleFileSelect
    \/ HandleDrop
    \/ DropResumes
    \/ HandleRemoveItem
    \/ HandleClear
    \/ HandleCopy
    \/ ReadSettles
    \/ PassPublishes
    \/ PassFails

SpecUI == InitUI /\ [][NextUI]_vars

(***************************************************************************)
(* Vocabulary of the properties                                            *)
(***************************************************************************)
Range(seq) == { seq[i] : i \in 1..Len(seq) }

Count(seq, e) == Cardinality({ i \in 1..Len(seq) : seq[i] = e })

\* every node list of a tree: the list itself and, recursively, the children
\* of its directory nodes
RECURSIVE NodeLists(_)
NodeLists(nodes) ==
    {nodes} \cup UNION { NodeLists(nodes[i].children)
                           : i \in { j \in 1..Len(nodes) : nodes[j].kind = "directory" } }

\* the node lists below the top level
InnerLists(nodes) ==
    UNION { NodeLists(nodes[i].children)
              : i \in { j \in 1..Len(nodes) : nodes[j].kind = "directory" } }

\* the file nodes of a tree, in depth-first order
RECURSIVE FileNodesOf(_)
FileNodesOf(nodes) ==
    IF Len(nodes) = 0 THEN <<>>
    ELSE (IF Head(nodes).kind = "file" THEN <<Head(nodes)>>
          ELSE FileNodesOf(Head(nodes).children)) \o FileNodesOf(Tail(nodes))

\* the directory nodes of a tree
RECURSIVE DirectoryNodesOf(_)
DirectoryNodesOf(nodes) ==
    UNION { {nodes[i]} \cup DirectoryNodesOf(nodes[i].children)
              : i \in { j \in 1..Len(nodes) : nodes[j].kind = "directory" } }

\* the tree under construction: the pushed nodes and the open directory node
Built(t, d) == IF d = NoDir THEN t ELSE Append(t, d)

\* the handles of the selection, as <<rank of the source, rank of the file>>
Handles == { <<s, f>> \in (1..MaxSources + 1) \X (1..MaxFiles + 1) :
                 s <= Len(sources) /\ f <= Len(sources[s].files) }

HandleAt(h) == sources[h[1]].files[h[2]]

SourceOf(h) == sources[h[1]]

PathParts(h) == Split(HandleAt(h).webkitRelativePath, "/")

\* a handle of a directory source whose relative path is rooted at the source
Rooted(h) ==
    /\ SourceOf(h).kind = "directory"
    /\ Len(PathParts(h)) > 1
    /\ PathParts(h)[1] = SourceOf(h).name
    /\ PathParts(h)[Len(PathParts(h))] = HandleAt(h).name

\* the path the node of a handle is given
NodePath(h) ==
    IF SourceOf(h).kind = "file" THEN HandleAt(h).name
    ELSE LeafPath(relativeParts(PathParts(h), SourceOf(h).name), SourceOf(h).name)

\* the content a handle stands for once resolved
Resolved(f) ==
    IF isBinary(f) THEN BinaryPlaceholder(f)
    ELSE IF f.err = "" THEN f.text
    ELSE "[Error reading file: " \o f.err \o "]"

HasFileNode(nodes, path) == \E n \in Range(FileNodesOf(nodes)) : n.path = path

Occurs(s, p, i) == i + Len(p) - 1 <= Len(s) /\ SubSeq(s, i, i + Len(p) - 1) = p

FirstIndexOf(s, p) ==
    IF Includes(s, p)
    THEN CHOOSE i \in 1..Len(s) :
             Occurs(s, p, i) /\ \A j \in 1..(i - 1) : ~Occurs(s, p, j)
    ELSE 0

LastIndexOf(s, p) ==
    IF Includes(s, p)
    THEN CHOOSE i \in 1..Len(s) :
             Occurs(s, p, i) /\ \A j \in (i + 1)..Len(s) : ~Occurs(s, p, j)
    ELSE 0

DirectorySegments(h) == SubSeq(PathParts(h), 2, Len(PathParts(h)) - 1)

C2_InclusionLaw ==
    pc = "done" =>
        \A h \in Handles :
            /\ Rooted(h) =>
                  (HasFileNode(tree, HandleAt(h).webkitRelativePath)
                      <=> /\ ~hasIgnoredDir(DirectorySegments(h))
                          /\ ~isIgnoredFile(HandleAt(h).name))
            /\ SourceOf(h).kind = "file" =>
                  ((\E i \in 1..Len(tree) :
                        /\ tree[i].kind = "file"
                        /\ tree[i].name = HandleAt(h).name
                        /\ tree[i].path = HandleAt(h).name)
                      <=> ~isIgnoredFile(HandleAt(h).name))

(***************************************************************************)
(* C3  Node-list uniqueness, as stated: at the end of a pass no node list  *)
(* of the tree, the top-level list included, holds two nodes of the same   *)
(* kind and the same name.                                                 *)
(***************************************************************************)
Clash(list, i, j) ==
    i # j /\ list[i].kind = list[j].kind /\ list[i].name = list[j].name

C3_NoTwoNodesAlike ==
    pc = "done" =>
        \A list \in NodeLists(tree) : \A i, j \in 1..Len(list) : ~Clash(list, i, j)

(***************************************************************************)
(* C3, amended  At the end of a pass, below the top level no node list     *)
(* holds two directory nodes of the same name, and two file nodes of one   *)
(* list have the same name only when two handles of one source resolve to  *)
(* that same path; at the top level there are no more nodes of a kind and  *)
(* a name than there are sources of that kind and name.                    *)
(***************************************************************************)
C3_NodesAlikeOnlyFromTwoOrigins ==
    pc = "done" =>
        /\ \A list \in InnerLists(tree) : \A i, j \in 1..Len(list) :
               Clash(list, i, j) =>
                   /\ list[i].kind = "file"
                   /\ \E g, h \in Handles :
                          /\ g # h
                          /\ g[1] = h[1]
                          /\ SourceOf(g).kind = "directory"
                          /\ NodePath(g) = list[i].path
                          /\ NodePath(h) = list[i].path
                          /\ list[j].path = list[i].path
        /\ \A i \in 1..Len(tree) :
               Cardinality({ j \in 1..Len(tree) :
                                 tree[j].kind = tree[i].kind /\ tree[j].name = tree[i].name })
                   <= Cardinality({ k \in 1..Len(sources) :
                                        sources[k].kind = tree[i].kind
                                            /\ sources[k].name = tree[i].name })

\* a finished pass with a list below the top level that holds two nodes of
\* one kind, and a top level that holds two nodes alike
C3_Witness ==
    /\ pc = "done"
    /\ \E list \in InnerLists(tree) : \E i, j \in 1..Len(list) :
           i # j /\ list[i].kind = list[j].kind
    /\ \E i, j \in 1..Len(tree) : Clash(tree, i, j)

(***************************************************************************)
(* C4  Path reconstruction: at the end of a pass every node's path is the  *)
(* slash-join of the names from the top-level node down to it, and every   *)
(* rooted handle R/d1/.../dk/f that the filter lets through has the chain  *)
(* R -> d1 -> ... -> dk -> f, with path R/d1/.../dk/f (the root is not     *)
(* nested twice) and contentText holds its header and fenced content.      *)
(***************************************************************************)
RECURSIVE PathsJoinNames(_, _)
PathsJoinNames(nodes, chain) ==
    \A i \in 1..Len(nodes) :
        /\ nodes[i].path = Join(Append(chain, nodes[i].name), "/")
        /\ nodes[i].kind = "directory" =>
               PathsJoinNames(nodes[i].children, Append(chain, nodes[i].name))

\* the node lists reached from `nodes` through directory nodes of these names
RECURSIVE ListsAt(_, _)
ListsAt(nodes, dirNames) ==
    IF Len(dirNames) = 0 THEN {nodes}
    ELSE UNION { ListsAt(nodes[i].children, Tail(dirNames))
                   : i \in { j \in 1..Len(nodes) :
                                 /\ nodes[j].kind = "directory"
                                 /\ nodes[j].name = Head(dirNames) } }

PassesFilter(h) ==
    ~hasIgnoredDir(PathParts(h)) /\ ~isIgnoredFile(HandleAt(h).name)

HasChain(h) ==
    LET parts == PathParts(h) IN
    \E list \in ListsAt(tree, SubSeq(parts, 1, Len(parts) - 1)) :
        \E n \in Range(list) :
            /\ n.kind = "file"
            /\ n.name = parts[Len(parts)]
            /\ n.path = HandleAt(h).webkitRelativePath
            /\ n.content = Resolved(HandleAt(h))

C4_PathReconstruction ==
    pc = "done" =>
        /\ PathsJoinNames(tree, <<>>)
        /\ \A h \in Handles :
               (Rooted(h) /\ PassesFilter(h)) =>
                   /\ HasChain(h)
                   /\ Includes(contentText,
                          "# -------- FILE: " \o HandleAt(h).webkitRelativePath
                              \o " --------\n\n~~~\n" \o Resolved(HandleAt(h)) \o "\n~~~")

\* a finished pass over a rooted handle two directories deep whose second
\* segment repeats the root name
C4_Witness ==
    /\ pc = "done"
    /\ \E h \in Handles :
           /\ Rooted(h) /\ PassesFilter(h) /\ HasChain(h)
           /\ Len(PathParts(h)) = 3
    /\ \E h \in Handles :
           /\ Rooted(h) /\ PassesFilter(h) /\ HasChain(h)
           /\ PathParts(h)[2] = PathParts(h)[1]

(***************************************************************************)
(* C5  Directory de-duplication: at every moment of a pass, no node list   *)
(* inside a directory source's subtree holds two directory nodes of the    *)
(* same name; and when the handles of a source have all been inserted,     *)
(* every directory node of its subtree holds the file nodes of all the     *)
(* inserted handles whose path lies directly in that directory.            *)
(***************************************************************************)
Inserted(h) == PassesFilter(h) /\ ~isIgnoredFile(PathParts(h)[Len(PathParts(h))])

C5_DirectoryDeduplication ==
    /\ \A list \in InnerLists(Built(tree, dirNode)) : \A i, j \in 1..Len(list) :
           Clash(list, i, j) => list[i].kind = "file"
    /\ (pc = "loop" /\ dirNode # NoDir /\ si <= Len(sources)
            /\ fi > Len(sources[si].files)) =>
           \A d \in DirectoryNodesOf(dirNode.children) :
               \A name \in { n.name : n \in Range(d.children) } :
                   Cardinality({ k \in 1..Len(d.children) :
                                     /\ d.children[k].kind = "file"
                                     /\ d.children[k].name = name })
                       = Cardinality({ h \in Handles :
                                           /\ h[1] = si
                                           /\ Inserted(h)
                                           /\ NodePath(h) = d.path \o "/" \o name })

\* two handles with a common prefix are in: one directory node, two files
C5_Witness ==
    /\ pc = "loop"
    /\ dirNode # NoDir
    /\ \E d \in DirectoryNodesOf(dirNode.children) :
           /\ Len(d.children) = 2
           /\ \A k \in 1..2 : d.children[k].kind = "file"

(***************************************************************************)
(* Vocabulary of the properties about single steps                         *)
(***************************************************************************)
\* the loops stand at a file
AtFile == si <= Len(sources) /\ fi <= Len(sources[si].files)

\* the step is the visit of that file
VisitsFile == pc = "loop" /\ AtFile /\ (sources[si].kind = "file" \/ dirNode # NoDir)

\* a handle that no filter skips
Kept(h) ==
    IF SourceOf(h).kind = "file" THEN ~isIgnoredFile(HandleAt(h).name) ELSE Inserted(h)

\* the file nodes a step adds to the tree under construction
AddedNodes ==
    LET before == FileNodesOf(Built(tree, dirNode))
        after == FileNodesOf(Built(tree', dirNode'))
    IN  { n \in Range(after) : Count(after, n) > Count(before, n) }

NamesIgnoredDirectory(segments) ==
    \E i \in 1..Len(segments) : segments[i] \in IGNORED_DIRS

\* a handle of a directory source with an ignored directory below the root
InIgnoredDirectory(h) ==
    SourceOf(h).kind = "directory" /\ NamesIgnoredDirectory(DirectorySegments(h))

\* the directory nodes below the top level
InnerDirectoryNodes(nodes) ==
    UNION { DirectoryNodesOf(nodes[i].children)
              : i \in { j \in 1..Len(nodes) : nodes[j].kind = "directory" } }

\* the name of the node of a handle
NodeName(h) ==
    IF SourceOf(h).kind = "file" THEN HandleAt(h).name
    ELSE LET rel == relativeParts(PathParts(h), SourceOf(h).name) IN rel[Len(rel)]

DeclaredBinary(f) ==
    \/ \E p \in {"image/", "video/", "audio/"} : StartsWith(f.type, p)
    \/ Extension(f.name) \in BINARY_EXTENSIONS

MediaPlaceholder(f) ==
    IF f.type = "" THEN "[Binary content of type unknown not included]"
    ELSE "[Binary content of type " \o f.type \o " not included]"

(***************************************************************************)
(* C6  Ignored-directory law: the step that visits a handle lying in an    *)
(* ignored directory changes neither the tree nor the set of handles       *)
(* read; at the end of the pass such a handle has no file node, no         *)
(* directory node below the top level bears an ignored name, the handle    *)
(* was never read and neither text mentions it.                            *)
(***************************************************************************)
C6_IgnoredDirectoryLaw ==
    [][ /\ (pc = "loop" /\ AtFile /\ dirNode # NoDir /\ InIgnoredDirectory(<<si, fi>>))
               => /\ tree' = tree
                  /\ dirNode' = dirNode
                  /\ reads' = reads
                  /\ pc' = "loop"
                  /\ fi' = fi + 1
        /\ (pc' = "done" /\ sources' = sources) =>
               /\ \A d \in InnerDirectoryNodes(tree') : d.name \notin IGNORED_DIRS
               /\ \A h \in Handles :
                      InIgnoredDirectory(h) =>
                          /\ h \notin Range(reads')
                          /\ ~HasFileNode(tree', NodePath(h))
                          /\ ~Includes(contentText', HandleAt(h).webkitRelativePath)
                          /\ \A k \in 1..Len(DirectorySegments(h)) :
                                 DirectorySegments(h)[k] \in IGNORED_DIRS =>
                                     ~Includes(structureText',
                                               "-- " \o DirectorySegments(h)[k] \o "\n")
      ]_vars

\* a finished pass over a handle in an ignored directory and a handle that
\* is kept
C6_Witness ==
    /\ pc = "done"
    /\ \E h \in Handles : InIgnoredDirectory(h)
    /\ Len(FileNodesOf(tree)) > 0

(***************************************************************************)
(* C7  Binary law: a handle whose media type starts with image/, video/    *)
(* or audio/, or whose lower-cased extension is a binary extension, is     *)
(* never read; the file node it is given holds exactly the placeholder     *)
(* naming its media type (unknown when the type is empty); its raw         *)
(* content is not in contentText.                                          *)
(***************************************************************************)
C7_BinaryLaw ==
    [][ /\ (pc \in {"loop", "reading"} /\ AtFile /\ DeclaredBinary(sources[si].files[fi]))
               => /\ pc = "loop"
                  /\ pc' = "loop"
                  /\ reads' = reads
                  /\ \A n \in AddedNodes : n.content = MediaPlaceholder(sources[si].files[fi])
                  /\ (VisitsFile /\ Kept(<<si, fi>>)) => Cardinality(AddedNodes) = 1
        /\ (pc' \in {"loop", "reading", "done"} /\ sources' = sources) =>
               \A h \in Range(reads') : ~DeclaredBinary(HandleAt(h))
        /\ (pc' = "done" /\ sources' = sources) =>
               \A h \in Handles :
                   DeclaredBinary(HandleAt(h)) =>
                       /\ ~Includes(contentText', HandleAt(h).text)
                       /\ \A n \in Range(FileNodesOf(tree')) :
                              n.path = NodePath(h) => n.content = MediaPlaceholder(HandleAt(h))
      ]_vars

\* a finished pass whose tree holds the placeholder of an image handle and
\* the placeholder of a handle with a binary extension and no media type
C7_Witness ==
    /\ pc = "done"
    /\ \E h \in Handles :
           /\ StartsWith(HandleAt(h).type, "image/")
           /\ \E n \in Range(FileNodesOf(tree)) :
                  n.path = NodePath(h) /\ n.content = MediaPlaceholder(HandleAt(h))
    /\ \E h \in Handles :
           /\ HandleAt(h).type = ""
           /\ \E n \in Range(FileNodesOf(tree)) :
                  /\ n.path = NodePath(h)
                  /\ n.content = "[Binary content of type unknown not included]"

(***************************************************************************)
(* C8  Ordering law: at the end of a pass every node list has its          *)
(* directory nodes before its file nodes and, within a kind, names in      *)
(* non-decreasing locale order; in structureText the line of a directory   *)
(* comes before the line of a file that is its sibling.                    *)
(***************************************************************************)
C8_OrderingLaw ==
    pc = "done" =>
        /\ \A list \in NodeLists(tree) : \A i, j \in 1..Len(list) :
               i < j =>
                   /\ list[i].kind = "file" => list[j].kind = "file"
                   /\ list[i].kind = list[j].kind =>
                          LocaleCompare(list[i].name, list[j].name) <= 0
        /\ \A list \in InnerLists(tree) : \A i, j \in 1..Len(list) :
               (list[i].kind = "directory" /\ list[j].kind = "file") =>
                   FirstIndexOf(structureText, "-- " \o list[i].name \o "\n")
                       < LastIndexOf(structureText, "-- " \o list[j].name \o "\n")

\* the file b.txt was enumerated before the file that made directory A, and
\* the finished tree lists A before b.txt
C8_Witness ==
    /\ pc = "done"
    /\ Len(tree) = 1
    /\ tree[1].kind = "directory"
    /\ Len(tree[1].children) = 2
    /\ tree[1].children[1].kind = "directory" /\ tree[1].children[1].name = "A"
    /\ tree[1].children[2].kind = "file" /\ tree[1].children[2].name = "b.txt"
    /\ sources[1].files[1].name = "b.txt"
    /\ Includes(structureText, "-- A\n")

(***************************************************************************)
(* C9  A failed read is recovered locally: the step in which file.text()   *)
(* rejects adds the file node with the placeholder embedding the error     *)
(* and moves on to the next file; no handle is read twice in a pass; the   *)
(* pass never rejects; at its end every handle that was read has its       *)
(* node, with its text when the read succeeded.                            *)
(***************************************************************************)
C9_ReadFailureRecovered ==
    [][ /\ pc' # "rejected"
        /\ (pc = "reading" /\ sources[si].files[fi].err # "") =>
               /\ pc' = "loop"
               /\ fi' = fi + 1
               /\ si' = si
               /\ reads' = reads
               /\ AddedNodes =
                      { [kind |-> "file", name |-> NodeName(<<si, fi>>),
                         path |-> NodePath(<<si, fi>>),
                         content |-> "[Error reading file: "
                                         \o sources[si].files[fi].err \o "]"] }
        /\ pc' \in {"loop", "reading", "done"} =>
               \A i, j \in 1..Len(reads') : reads'[i] = reads'[j] => i = j
        /\ (pc' = "done" /\ sources' = sources) =>
               \A h \in Range(reads') :
                   \E n \in Range(FileNodesOf(tree')) :
                       /\ n.path = NodePath(h)
                       /\ n.content = IF HandleAt(h).err = "" THEN HandleAt(h).text
                                      ELSE "[Error reading file: " \o HandleAt(h).err \o "]"
      ]_vars

\* a finished pass in which one read failed and another succeeded
C9_Witness ==
    /\ pc = "done"
    /\ \E g, h \in Range(reads) :
           /\ HandleAt(g).err # ""
           /\ HandleAt(h).err = ""
           /\ \E n \in Range(FileNodesOf(tree)) :
                  n.path = NodePath(h) /\ n.content = HandleAt(h).text
           /\ \E n \in Range(FileNodesOf(tree)) :
                  /\ n.path = NodePath(g)
                  /\ n.content = "[Error reading file: " \o HandleAt(g).err \o "]"

(***************************************************************************)
(* C10  Idempotence: no step of a pass changes the source list, and a      *)
(* pass over the source list of the pass before it ends with the same      *)
(* structureText and the same contentText.                                 *)
(***************************************************************************)
C10_Idempotence ==
    [][ /\ pc \in {"start", "loop", "reading"} => sources' = sources
        /\ (pc' = "done" /\ prev'.pass > 0 /\ prev'.sources = sources') =>
               /\ structureText' = prev'.structureText
               /\ contentText' = prev'.contentText
      ]_vars

\* a second pass over the same selection has finished with a non-empty output
C10_Witness ==
    /\ pc = "done"
    /\ prev.pass > 0
    /\ prev.sources = sources
    /\ contentText # ""
    /\ contentText = prev.contentText
    /\ structureText = prev.structureText

(***************************************************************************)
(* C11  Top-level directory nodes: at the end of a pass the top level      *)
(* holds as many directory nodes as there are directory sources, name by   *)
(* name (sources that share a name are not merged), and a directory        *)
(* source none of whose files is kept has its node, without children.      *)
(***************************************************************************)
DirectorySources == { k \in 1..Len(sources) : sources[k].kind = "directory" }

TopDirectories(nodes) == { i \in 1..Len(nodes) : nodes[i].kind = "directory" }

C11_OneTopLevelNodePerDirectorySource ==
    pc = "done" =>
        /\ Cardinality(TopDirectories(tree)) = Cardinality(DirectorySources)
        /\ \A k \in DirectorySources :
               Cardinality({ i \in TopDirectories(tree) : tree[i].name = sources[k].name })
                   = Cardinality({ j \in DirectorySources :
                                       sources[j].name = sources[k].name })
        /\ \A k \in DirectorySources :
               (\A h \in Handles : h[1] = k => ~Kept(h)) =>
                   \E i \in TopDirectories(tree) :
                       /\ tree[i].name = sources[k].name
                       /\ tree[i].path = sources[k].name
                       /\ tree[i].children = <<>>

\* a finished pass over two directory sources of one name, one of which has
\* all its files excluded
C11_Witness ==
    /\ pc = "done"
    /\ Cardinality(DirectorySources) = 2
    /\ sources[1].name = sources[2].name
    /\ \E k \in DirectorySources :
           /\ Len(sources[k].files) > 0
           /\ \A h \in Handles : h[1] = k => ~Kept(h)
    /\ \E i \in TopDirectories(tree) : Len(tree[i].children) > 0

(***************************************************************************)
(* C12  renderContents: contentText is, for the file nodes of the tree in  *)
(* depth-first order, one header with the node's path followed by the      *)
(* node's content in a fenced block, the blocks two line ends apart;       *)
(* directory nodes add nothing; the text neither starts nor ends with      *)
(* white space.                                                            *)
(***************************************************************************)
RECURSIVE ExpectedBlocks(_)
ExpectedBlocks(fileNodes) ==
    IF Len(fileNodes) = 0 THEN ""
    ELSE "\n\n# -------- FILE: " \o Head(fileNodes).path \o " --------\n\n~~~\n"
             \o Head(fileNodes).content \o "\n~~~"
             \o ExpectedBlocks(Tail(fileNodes))

C12_RenderContents ==
    pc = "done" =>
        LET blocks == ExpectedBlocks(FileNodesOf(tree)) IN
        /\ contentText = SubSeq(blocks, 3, Len(blocks))
        /\ contentText # "" =>
               /\ ~IsSpace(Char(contentText, 1))
               /\ ~IsSpace(Char(contentText, Len(contentText)))
        /\ Len(FileNodesOf(tree)) = 0 => contentText = ""

\* a finished pass whose tree has a directory node and two file nodes, one
\* of them inside a directory below the top level
C12_Witness ==
    /\ pc = "done"
    /\ Len(FileNodesOf(tree)) = 2
    /\ InnerDirectoryNodes(tree) # {}
    /\ StartsWith(contentText, "# -------- FILE: ")

(***************************************************************************)
(* C16  Root segment handling: the root segment of a rooted handle is      *)
(* dropped before the ignored-directory scan, so the files of a directory  *)
(* source that is itself named like an ignored directory are in the tree   *)
(* when no remaining segment is ignored.                                   *)
(***************************************************************************)
C16_IgnoredRootNameKeepsFiles ==
    pc = "done" =>
        \A h \in Handles :
            (/\ Rooted(h)
             /\ SourceOf(h).name \in IGNORED_DIRS
             /\ ~NamesIgnoredDirectory(Tail(PathParts(h)))
             /\ ~isIgnoredFile(HandleAt(h).name))
                => HasFileNode(tree, HandleAt(h).webkitRelativePath)

(***************************************************************************)
(* C17  No empty intermediate directories: when the name of every handle   *)
(* is the last segment of its relative path, at the end of a pass every    *)
(* directory node below the top level has a child.                         *)
(***************************************************************************)
NamedByPath(h) ==
    SourceOf(h).kind = "directory" =>
        PathParts(h)[Len(PathParts(h))] = HandleAt(h).name

C17_NoEmptyIntermediateDirectory ==
    (pc = "done" /\ \A h \in Handles : NamedByPath(h)) =>
        \A d \in InnerDirectoryNodes(tree) : Len(d.children) > 0

\* a finished pass with a kept file in a directory in which an excluded
\* file lies deeper
C17_Witness ==
    /\ pc = "done"
    /\ \A h \in Handles : NamedByPath(h)
    /\ InnerDirectoryNodes(tree) # {}
    /\ \E h \in Handles : SourceOf(h).kind = "directory" /\ ~Kept(h)
                              /\ Len(PathParts(h)) > 2

(***************************************************************************)
(* C13  Pass-level failure surface: the pass the component is waiting for  *)
(* ends in one of two ways.  Either it publishes the output made of the    *)
(* two strings of its own tree and raises no error, or it raises the       *)
(* error `Failed to process files.` and from then on the component         *)
(* neither shows an output nor offers one for copying.                     *)
(***************************************************************************)
C13_PassLevelFailureSurface ==
    [][\A p \in inflight :
           (inflight = {p} /\ inflight' = {} /\ p.id = pass /\ p.sources = sources') =>
               \/ /\ error' = error
                  /\ combinedOutput' = Published(p.sources)
               \/ /\ error' = FailedToProcess
                  /\ ~OutputShown'
                  /\ ~CopyShown']_vars

(***************************************************************************)
(* C14  Empty input: the tree of an empty source list renders as the       *)
(* empty structure text and the empty content text, and when the source    *)
(* list of the component becomes empty the combined output is set to the   *)
(* empty string and no pass is started.                                    *)
(***************************************************************************)
C14_EmptyInput ==
    [][/\ generateStructureString(AwaitedTree(<<>>)) = ""
       /\ generateContentString(AwaitedTree(<<>>)) = ""
       /\ (sources # <<>> /\ sources' = <<>>) =>
              /\ combinedOutput' = ""
              /\ pass' = pass
              /\ inflight' = inflight]_vars

\* the list is empty again after an output was there to be copied
C14_Witness ==
    /\ sources = <<>>
    /\ pass > 0
    /\ clipboard # ""
    /\ combinedOutput = ""
    /\ inflight = {}

(***************************************************************************)
(* C15  Discarded passes: a pass whose source list is no longer the list   *)
(* of the component leaves the combined output as it is when it ends, and  *)
(* once no pass and no drop is pending and no error is raised, the         *)
(* combined output is the one computed from the current source list.       *)
(***************************************************************************)
C15_DiscardedPasses ==
    /\ [][\A p \in inflight :
              (p \notin inflight' /\ p.left = 1 /\ p.sources # sources) =>
                  combinedOutput' = combinedOutput]_vars
    /\ []((inflight = {} /\ drops = <<>> /\ error = "") =>
              combinedOutput = IF sources = <<>> THEN "" ELSE Published(sources))

(***************************************************************************)
(* C18  Cleared selection stays cleared: whenever the source list is empty *)
(* and no pass is in flight the combined output is the empty string, and   *)
(* isLoading is false only when no pass is in flight.                      *)
(***************************************************************************)
C18_ClearedStaysCleared ==
    /\ (sources = <<>> /\ inflight = {}) => combinedOutput = ""
    /\ ~isLoading => inflight = {}

\* the stepped pass and the pass as a function agree on the tree
PassAsFunction == pc = "done" => tree = AwaitedTree(sources)

====
